---------------------------- MODULE Spec2Model ----------------------------
(***************************************************************************)
(* State-machine model of src/app.py ("Analisis Comparativo de Archivos"): *)
(* the price reconciliation between an ERP catalogue (A1) and the public   *)
(* (B1) and cost (B2) supplier lists, and the session state that keeps the *)
(* results between script runs.                                            *)
(*                                                                         *)
(* Numbers.  A Python float is modelled as one of                          *)
(*    [k |-> "nan"]                     not-a-number                       *)
(*    [k |-> "inf", s |-> 1 or -1]      signed infinity                    *)
(*    [k |-> "fin", n |-> Int, d |-> Nat]   the decimal n / 10^d,          *)
(* finite values being kept in lowest terms (no trailing zero digit), so   *)
(* that equal numbers are equal records.  Arithmetic on finite values is   *)
(* exact decimal arithmetic; a rounding tie is resolved half-to-even.      *)
(* Text is a sequence of one-character strings.                            *)
(***************************************************************************)
EXTENDS Integers, Sequences, FiniteSets, TLC

VARIABLES
    session,     \* st.session_state: analyzed, res_public, res_cost, audit_data, input_counts
    writer,      \* for each result field of session, the run that last assigned it (0: none)
    runs,        \* number of analysis runs requested so far
    errors,      \* the st.error reports of the last script run, in order
    steps,       \* the steps of the analysis executed in the last script run, in order
    supplied,    \* which uploaders held a file in the last script run
    outcome,     \* how the last script run ended
    committed,   \* the last run that reached GUARDAR ESTADO, and the files it read
    input,       \* argument of the function under study (function specifications)
    output       \* its result, NoValue until it has been applied

vars == <<session, writer, runs, errors, steps, supplied, outcome, committed, input, output>>

NoValue == [k |-> "none"]
Result(v) == [k |-> "result", v |-> v]

-----------------------------------------------------------------------------
(* Bounds of the model *)

MaxLen == 3        \* longest enumerated raw text
MaxRows == 2       \* most rows of a table in the matching specification
MaxRuns == 3       \* analysis runs followed in the session specification
MaxCents == 3      \* largest price magnitude, in cents, of the pricing specification
StatusRange == 60  \* largest numerator of a difference in the status specification
MaxDecimals == 4   \* most decimal places of a difference in the status specification

-----------------------------------------------------------------------------
(* Floats *)

RECURSIVE Pow10(_)
Pow10(k) == IF k = 0 THEN 1 ELSE 10 * Pow10(k - 1)

Abs(i) == IF i < 0 THEN -i ELSE i

Sign(i) == IF i < 0 THEN -1 ELSE IF i > 0 THEN 1 ELSE 0

RECURSIVE Fin(_, _)
Fin(n, d) ==
    IF d > 0 /\ n % 10 = 0 THEN Fin(n \div 10, d - 1)
    ELSE [k |-> "fin", n |-> n, d |-> d]

NaN == [k |-> "nan"]
Inf(s) == [k |-> "inf", s |-> s]
Zero == Fin(0, 0)

IsFinite(v) == v.k = "fin"

\* Python's v != 0 on floats: true of nan and of the infinities.
NotZero(v) == ~(v.k = "fin" /\ v.n = 0)

\* Python's a > 0 on floats: false of nan.
GtZero(v) ==
    CASE v.k = "fin" -> v.n > 0
      [] v.k = "inf" -> v.s > 0
      [] OTHER -> FALSE

LtZero(v) ==
    CASE v.k = "fin" -> v.n < 0
      [] v.k = "inf" -> v.s < 0
      [] OTHER -> FALSE

\* Sign of a value that is not nan.
SignOf(v) == IF v.k = "fin" THEN Sign(v.n) ELSE v.s

\* The integer nearest to p / q (q > 0), a tie going to the even one.
RoundDivPos(p, q) ==
    LET f == p \div q
        r == p - f * q
    IN  IF 2 * r < q THEN f
        ELSE IF 2 * r > q THEN f + 1
        ELSE IF f % 2 = 0 THEN f ELSE f + 1

RoundDiv(p, q) == IF q < 0 THEN RoundDivPos(-p, -q) ELSE RoundDivPos(p, q)

\* Series.round(2)
Round2(v) ==
    IF v.k # "fin" THEN v
    ELSE IF v.d <= 2 THEN v
    ELSE Fin(RoundDivPos(v.n, Pow10(v.d - 2)), 2)

\* a - b
Sub(a, b) ==
    CASE a.k = "nan" \/ b.k = "nan" -> NaN
      [] a.k = "inf" /\ b.k = "inf" -> IF a.s = b.s THEN NaN ELSE Inf(a.s)
      [] a.k = "inf" -> a
      [] b.k = "inf" -> Inf(-b.s)
      [] OTHER ->
            LET d == IF a.d > b.d THEN a.d ELSE b.d
            IN  Fin(a.n * Pow10(d - a.d) - b.n * Pow10(d - b.d), d)

\* round((a / b) * 100, 2), for b that is not zero
PercentOf(a, b) ==
    CASE a.k = "nan" \/ b.k = "nan" -> NaN
      [] a.k = "inf" /\ b.k = "inf" -> NaN
      [] a.k = "inf" -> Inf(a.s * SignOf(b))
      [] b.k = "inf" -> Zero
      [] OTHER ->
            LET m == IF a.d < b.d THEN a.d ELSE b.d
            IN  Fin(RoundDiv(a.n * Pow10(b.d - m) * 10000, b.n * Pow10(a.d - m)), 2)

-----------------------------------------------------------------------------
(* Text *)

Digits == <<"0", "1", "2", "3", "4", "5", "6", "7", "8", "9">>

IsDigit(c) == \E i \in 1..Len(Digits) : Digits[i] = c

DigitVal(c) == (CHOOSE i \in 1..Len(Digits) : Digits[i] = c) - 1

\* str.replace(c, '')
RECURSIVE Remove(_, _)
Remove(s, c) ==
    IF s = <<>> THEN <<>>
    ELSE IF Head(s) = c THEN Remove(Tail(s), c)
    ELSE <<Head(s)>> \o Remove(Tail(s), c)

RECURSIVE LStrip(_)
LStrip(s) == IF s # <<>> /\ Head(s) = " " THEN LStrip(Tail(s)) ELSE s

RECURSIVE RStrip(_)
RStrip(s) ==
    IF s # <<>> /\ s[Len(s)] = " " THEN RStrip(SubSeq(s, 1, Len(s) - 1)) ELSE s

\* str.strip()
Strip(s) == RStrip(LStrip(s))

\* The digits of s read as a decimal integer.
RECURSIVE DigitsVal(_)
DigitsVal(s) ==
    IF s = <<>> THEN 0
    ELSE 10 * DigitsVal(SubSeq(s, 1, Len(s) - 1)) + DigitVal(s[Len(s)])

\* float(s) of a text without surrounding blanks: an optional sign, then nan, inf,
\* infinity, or decimal digits with at most one point and at least one digit.
\* Anything else raises ValueError, returned here as NoValue.  (Exponents, digit
\* grouping with underscores and upper-case spellings, which float() also reads,
\* use characters that no text of the model holds.)
ParseFloat(s) ==
    LET signed == s # <<>> /\ Head(s) \in {"+", "-"}
        sgn == IF signed /\ Head(s) = "-" THEN -1 ELSE 1
        body == IF signed THEN Tail(s) ELSE s
        points == {i \in 1..Len(body) : body[i] = "."}
        digs == Remove(body, ".")
    IN  IF body = <<"n", "a", "n">> THEN NaN
        ELSE IF body = <<"i", "n", "f">>
                \/ body = <<"i", "n", "f", "i", "n", "i", "t", "y">> THEN Inf(sgn)
        ELSE IF /\ digs # <<>>
                /\ \A i \in 1..Len(digs) : IsDigit(digs[i])
                /\ Cardinality(points) <= 1
             THEN LET d == IF points = {} THEN 0
                           ELSE Len(body) - (CHOOSE i \in points : TRUE)
                  IN  Fin(sgn * DigitsVal(digs), d)
        ELSE NoValue

-----------------------------------------------------------------------------
(* Cells of a raw table: a text, or a number (an empty cell is read as nan). *)

StrCell(s) == [t |-> "str", s |-> s]
NumCell(v) == [t |-> "num", v |-> v]
Missing == NumCell(NaN)

IntCell(i) == [t |-> "int", i |-> i]

\* The float a numeric cell holds.
NumVal(x) == IF x.t = "int" THEN Fin(x.i, 0) ELSE x.v

clean_currency(x) ==
    IF x.t = "str"
    THEN LET clean == Strip(Remove(Remove(x.s, "$"), ","))
             parsed == ParseFloat(clean)
         IN  IF parsed = NoValue THEN Zero ELSE parsed
    ELSE NumVal(x)

\* abs(val) < 0.005, the tolerance being TolNum / TolDen
TolNum == 5
TolDen == 1000

determine_status_inclusive(row) ==
    LET val == row["Diferencia_$$"]
    IN  IF val.k = "fin" /\ Abs(val.n) * TolDen <= TolNum * Pow10(val.d) THEN "Igual"
        ELSE IF GtZero(val) THEN "Mayor que ERP"
        ELSE "Menor que ERP"

determine_status(row) ==
    LET val == row["Diferencia_$$"]
    IN  IF val.k = "fin" /\ Abs(val.n) * TolDen < TolNum * Pow10(val.d) THEN "Igual"
        ELSE IF GtZero(val) THEN "Mayor que ERP"
        ELSE "Menor que ERP"

\* str(i) of a natural number
RECURSIVE NatStr(_)
NatStr(i) ==
    IF i < 10 THEN <<Digits[i + 1]>>
    ELSE NatStr(i \div 10) \o <<Digits[(i % 10) + 1]>>

\* The k low decimal digits of i, zero-padded
RECURSIVE FracStr(_, _)
FracStr(i, k) ==
    IF k = 0 THEN <<>> ELSE FracStr(i \div 10, k - 1) \o <<Digits[(i % 10) + 1]>>

\* str(v) of a float
FloatStr(v) ==
    CASE v.k = "nan" -> <<"n", "a", "n">>
      [] v.k = "inf" -> (IF v.s < 0 THEN <<"-">> ELSE <<>>) \o <<"i", "n", "f">>
      [] OTHER ->
            LET a == Abs(v.n)
                p == Pow10(v.d)
            IN  (IF v.n < 0 THEN <<"-">> ELSE <<>>)
                \o NatStr(a \div p) \o <<".">>
                \o (IF v.d = 0 THEN <<"0">> ELSE FracStr(a % p, v.d))

\* One element of Series.astype(str)
AsStr(x) ==
    CASE x.t = "str" -> x.s
      [] x.t = "int" -> (IF x.i < 0 THEN <<"-">> ELSE <<>>) \o NatStr(Abs(x.i))
      [] OTHER -> FloatStr(x.v)

\* One element of Series.astype(str).str.strip()
normalize_identifier(x) == Strip(AsStr(x))

-----------------------------------------------------------------------------
(* Files and data frames.  An uploaded file is                             *)
(*   [kind |-> "file", name, readable, ncols, rows]                        *)
(* where rows is a sequence of functions from the column positions the     *)
(* program reads (those below ncols) to cells; PyNone is Python's None (an *)
(* empty uploader, the result of a failed load, an absent report).         *)

PyNone == [kind |-> "none"]

File(name, readable, ncols, rows) ==
    [kind |-> "file", name |-> name, readable |-> readable, ncols |-> ncols, rows |-> rows]

DataFrame(rows) == [kind |-> "df", rows |-> rows]

EmptyDict == [x \in {} |-> PyNone]

\* len(df) of the result of load_data: TypeError on None
LenRaises(df) == df = PyNone

\* df.iloc[:, cols]: IndexError when a position is out of bounds
IlocRaises(df, cols) == \E i \in 1..Len(cols) : cols[i] >= df.ncols

\* load_data: the frame read, or None after reporting the failure
load_data(file) ==
    IF file.readable
    THEN [df |-> [kind |-> "df", ncols |-> file.ncols, rows |-> file.rows], errors |-> <<>>]
    ELSE [df |-> PyNone, errors |-> <<"Error cargando archivo">>]

\* Column positions read from each file
ErpCodeCol == 18
ErpPublicCol == 14
ErpCostCol == 20
PubCodeCol == 0
PubDescCol == 1
PubPriceCol == 2
CostCodeCol == 0
CostPriceCol == 9

ErpCols == <<ErpCodeCol, ErpPublicCol, ErpCostCol>>
PubCols == <<PubCodeCol, PubDescCol, PubPriceCol>>
CostCols == <<CostCodeCol, CostPriceCol>>

\* Normalizar ERP
ErpSubset(df) ==
    DataFrame([i \in 1..Len(df.rows) |->
        [Codigo_ERP |-> normalize_identifier(df.rows[i][ErpCodeCol]),
         Precio_Publico_ERP |-> Round2(clean_currency(df.rows[i][ErpPublicCol])),
         Precio_Costo_ERP |-> Round2(clean_currency(df.rows[i][ErpCostCol]))]])

\* Normalizar B1
PubSubset(df) ==
    DataFrame([i \in 1..Len(df.rows) |->
        [Codigo_Prov |-> normalize_identifier(df.rows[i][PubCodeCol]),
         Desc_Prov |-> df.rows[i][PubDescCol],
         Precio_Publico_Prov |-> Round2(clean_currency(df.rows[i][PubPriceCol]))]])

\* Normalizar B2
CostSubset(df) ==
    DataFrame([i \in 1..Len(df.rows) |->
        [Codigo_Prov |-> normalize_identifier(df.rows[i][CostCodeCol]),
         Precio_Costo_Prov |-> Round2(clean_currency(df.rows[i][CostPriceCol]))]])

\* set(df[col])
CodeSet(df, col) == {df.rows[i][col] : i \in 1..Len(df.rows)}

\* df[[cols]]
Project(df, cols) ==
    DataFrame([i \in 1..Len(df.rows) |-> [c \in cols |-> df.rows[i][c]]])

NotIn_unnegated(df, col, codes) ==
    LET Keep(r) == r[col] \in codes
    IN  DataFrame(SelectSeq(df.rows, Keep))

\* df[~df[col].isin(codes)]
NotIn(df, col, codes) ==
    LET Keep(r) == r[col] \notin codes
    IN  DataFrame(SelectSeq(df.rows, Keep))

\* The rows of right that pair with the left row l, in right's order
PairsOf(l, right, left_on, right_on) ==
    LET Same(r) == r[right_on] = l[left_on]
        sel == SelectSeq(right.rows, Same)
    IN  [j \in 1..Len(sel) |-> l @@ sel[j]]

RECURSIVE JoinFrom(_, _, _, _, _)
JoinFrom(i, left, right, left_on, right_on) ==
    IF i > Len(left.rows) THEN <<>>
    ELSE PairsOf(left.rows[i], right, left_on, right_on)
         \o JoinFrom(i + 1, left, right, left_on, right_on)

merge_first_match(left, right, left_on, right_on) ==
    LET Hit(l) == \E j \in 1..Len(right.rows) : right.rows[j][right_on] = l[left_on]
        First(l) == CHOOSE j \in 1..Len(right.rows) :
                        /\ right.rows[j][right_on] = l[left_on]
                        /\ \A h \in 1..(j - 1) : right.rows[h][right_on] # l[left_on]
        hits == SelectSeq(left.rows, Hit)
    IN  DataFrame([i \in 1..Len(hits) |-> hits[i] @@ right.rows[First(hits[i])]])

\* pd.merge(left, right, left_on, right_on, how='inner')
merge(left, right, left_on, right_on) ==
    DataFrame(JoinFrom(1, left, right, left_on, right_on))

\* The division without the test for a zero price: numpy gives nan for 0/0 and a
\* signed infinity for any other x/0
Diferencia_pct_unguarded(dif, precio_erp) ==
    IF NotZero(precio_erp) THEN PercentOf(dif, precio_erp)
    ELSE IF dif.k = "nan" \/ dif = Zero THEN NaN
    ELSE Inf(SignOf(dif))

\* The lambda of Diferencia_%, and its .round(2)
Diferencia_pct(dif, precio_erp) ==
    IF NotZero(precio_erp) THEN PercentOf(dif, precio_erp) ELSE Zero

\* The columns Diferencia_$$, Diferencia_% and Estado added to a merged frame.
\* (DataFrame.apply over a frame without rows is taken to give a column without
\* rows, as current pandas does.)
Diferencias(res, precio_prov, precio_erp) ==
    DataFrame([i \in 1..Len(res.rows) |->
        LET r == res.rows[i]
            r1 == r @@ ("Diferencia_$$" :> Round2(Sub(r[precio_prov], r[precio_erp])))
            r2 == r1 @@ ("Diferencia_%" :> Diferencia_pct(r1["Diferencia_$$"], r[precio_erp]))
        IN  r2 @@ ("Estado" :> determine_status(r2))])

\* ANALISIS PRECIO PUBLICO (B1) on a frame that was loaded
AnalisisPublico(df_pub, erp_subset) ==
    LET pub_subset == PubSubset(df_pub)
        matched == merge(pub_subset, Project(erp_subset, {"Codigo_ERP", "Precio_Publico_ERP"}),
                         "Codigo_Prov", "Codigo_ERP")
    IN  [res |-> Diferencias(matched, "Precio_Publico_Prov", "Precio_Publico_ERP"),
         audit |-> ("B1_not_A1" :> NotIn(pub_subset, "Codigo_Prov", CodeSet(erp_subset, "Codigo_ERP")))
                   @@ ("A1_not_B1" :> NotIn(erp_subset, "Codigo_ERP", CodeSet(pub_subset, "Codigo_Prov")))]

\* ANALISIS PRECIO COSTO (B2) on a frame that was loaded
AnalisisCosto(df_cost, erp_subset) ==
    LET cost_subset == CostSubset(df_cost)
        matched == merge(cost_subset, Project(erp_subset, {"Codigo_ERP", "Precio_Costo_ERP"}),
                         "Codigo_Prov", "Codigo_ERP")
    IN  [res |-> Diferencias(matched, "Precio_Costo_Prov", "Precio_Costo_ERP"),
         audit |-> ("B2_not_A1" :> NotIn(cost_subset, "Codigo_Prov", CodeSet(erp_subset, "Codigo_ERP")))
                   @@ ("A1_not_B2" :> NotIn(erp_subset, "Codigo_ERP", CodeSet(cost_subset, "Codigo_Prov")))]

-----------------------------------------------------------------------------
(* The analysis run (the body of "if click_analysis") *)

\* A frame of the try block: whether it raised, what it reported and executed, and
\* the locals that GUARDAR ESTADO or the except clause can see.
Frame(raised, why, errs, done, pub, cost, audit, counts) ==
    [raised |-> raised, why |-> why, errors |-> errs, steps |-> done,
     temp_res_public |-> pub, temp_res_cost |-> cost, audit |-> audit, counts |-> counts]

\* Why a load followed by a column selection raised, "" when it did not
Failure(df, cols) ==
    IF LenRaises(df) THEN "LoadError"
    ELSE IF IlocRaises(df, cols) THEN "SchemaError"
    ELSE ""

TryBlock(erp_file, prov_pub_file, prov_cost_file) ==
    LET e == load_data(erp_file)
        e_fail == Failure(e.df, ErpCols)
    IN
    IF e_fail # ""
    THEN Frame(TRUE, e_fail, e.errors, <<"load:erp">>, PyNone, PyNone, EmptyDict, EmptyDict)
    ELSE
    LET erp_subset == ErpSubset(e.df)
        counts0 == [ERP |-> Len(e.df.rows), B1 |-> 0, B2 |-> 0]
        done0 == <<"load:erp", "extract:erp">>
        has_pub == prov_pub_file # PyNone
        p == IF has_pub THEN load_data(prov_pub_file) ELSE [df |-> PyNone, errors |-> <<>>]
        p_fail == IF has_pub THEN Failure(p.df, PubCols) ELSE ""
    IN
    IF p_fail # ""
    THEN Frame(TRUE, p_fail, p.errors, done0 \o <<"load:pub">>, PyNone, PyNone, EmptyDict,
               IF LenRaises(p.df) THEN counts0 ELSE [counts0 EXCEPT !.B1 = Len(p.df.rows)])
    ELSE
    LET pa == IF has_pub THEN AnalisisPublico(p.df, erp_subset)
              ELSE [res |-> PyNone, audit |-> EmptyDict]
        counts1 == IF has_pub THEN [counts0 EXCEPT !.B1 = Len(p.df.rows)] ELSE counts0
        done1 == IF has_pub THEN done0 \o <<"load:pub", "analyze:pub">> ELSE done0
        has_cost == prov_cost_file # PyNone
        c == IF has_cost THEN load_data(prov_cost_file) ELSE [df |-> PyNone, errors |-> <<>>]
        c_fail == IF has_cost THEN Failure(c.df, CostCols) ELSE ""
    IN
    IF c_fail # ""
    THEN Frame(TRUE, c_fail, c.errors, done1 \o <<"load:cost">>, pa.res, PyNone, pa.audit,
               IF LenRaises(c.df) THEN counts1 ELSE [counts1 EXCEPT !.B2 = Len(c.df.rows)])
    ELSE
    LET ca == IF has_cost THEN AnalisisCosto(c.df, erp_subset)
              ELSE [res |-> PyNone, audit |-> EmptyDict]
        counts2 == IF has_cost THEN [counts1 EXCEPT !.B2 = Len(c.df.rows)] ELSE counts1
        done2 == IF has_cost THEN done1 \o <<"load:cost", "analyze:cost">> ELSE done1
    IN  Frame(FALSE, "", <<>>, done2 \o <<"commit">>, pa.res, ca.res, ca.audit @@ pa.audit, counts2)

-----------------------------------------------------------------------------
(* Session state *)

ResultFields == {"res_public", "res_cost", "audit_data", "input_counts"}

SessionInit ==
    [analyzed |-> FALSE, res_public |-> PyNone, res_cost |-> PyNone,
     audit_data |-> EmptyDict, input_counts |-> EmptyDict]

GuardarEstado_skip_none(frame) ==
    [f \in {"audit_data", "input_counts", "analyzed"}
            \cup (IF frame.temp_res_public # PyNone THEN {"res_public"} ELSE {})
            \cup (IF frame.temp_res_cost # PyNone THEN {"res_cost"} ELSE {}) |->
        CASE f = "res_public" -> frame.temp_res_public
          [] f = "res_cost" -> frame.temp_res_cost
          [] f = "audit_data" -> frame.audit
          [] f = "input_counts" -> frame.counts
          [] OTHER -> TRUE]

\* GUARDAR ESTADO: the session fields assigned after a run that did not raise
GuardarEstado(frame) ==
    [res_public |-> frame.temp_res_public, res_cost |-> frame.temp_res_cost,
     audit_data |-> frame.audit, input_counts |-> frame.counts, analyzed |-> TRUE]

ExceptHandler_keeps_partial(frame) ==
    IF frame.temp_res_public # PyNone
    THEN [res_public |-> frame.temp_res_public, analyzed |-> FALSE]
    ELSE [analyzed |-> FALSE]

\* except Exception: the session fields assigned after a run that raised
ExceptHandler(frame) == [analyzed |-> FALSE]

MissingErp_keeps_analyzed == EmptyDict

\* The session fields assigned when the ERP uploader is empty
MissingErp == [analyzed |-> FALSE]

\* The session after the assignments asg
Assign(sess, asg) == [f \in DOMAIN sess |-> IF f \in DOMAIN asg THEN asg[f] ELSE sess[f]]

\* The writers of the result fields after run r made the assignments asg
Written(w, asg, r) == [f \in ResultFields |-> IF f \in DOMAIN asg THEN r ELSE w[f]]

-----------------------------------------------------------------------------
(* Uploaded files of the session specification *)

ErpRow(code, publico, costo) ==
    (ErpCodeCol :> code) @@ (ErpPublicCol :> publico) @@ (ErpCostCol :> costo)

PubRow(code, desc, precio) ==
    (PubCodeCol :> code) @@ (PubDescCol :> desc) @@ (PubPriceCol :> precio)

CostRow(code, precio) == (CostCodeCol :> code) @@ (CostPriceCol :> precio)

\* A row of a file too narrow to hold any of the columns read
NarrowRow == [c \in {} |-> Missing]

ErpGood ==
    { File("erp_a.csv", TRUE, 21,
           << ErpRow(StrCell(<<"7">>), StrCell(<<"$", "1", "0", ".", "0", "0">>), IntCell(5)),
              ErpRow(StrCell(<<"8">>), IntCell(0), Missing) >>),
      File("erp_b.xlsx", TRUE, 21,
           << ErpRow(StrCell(<<"9", " ">>), NumCell(Fin(105, 1)), StrCell(<<"4", ".", "2", "5">>)) >>) }

ErpFiles ==
    ErpGood \cup { File("erp_bad.csv", FALSE, 0, <<>>),
                   File("erp_narrow.csv", TRUE, 3, <<NarrowRow>>) }

PubGood ==
    { File("pub_a.csv", TRUE, 3,
           << PubRow(StrCell(<<" ", "7">>), StrCell(<<"x">>), StrCell(<<"1", "0", ".", "5", "0">>)),
              PubRow(StrCell(<<"6">>), StrCell(<<"y">>), IntCell(3)) >>),
      File("pub_b.csv", TRUE, 3,
           << PubRow(IntCell(9), Missing, StrCell(<<"$", "1", "1">>)),
              PubRow(IntCell(8), StrCell(<<"z">>), IntCell(2)) >>) }

PubFiles ==
    PubGood \cup { File("pub_bad.xlsx", FALSE, 0, <<>>),
                   File("pub_narrow.csv", TRUE, 2, <<NarrowRow>>) }

CostGood ==
    { File("cost_a.csv", TRUE, 10,
           << CostRow(StrCell(<<"7">>), NumCell(Fin(55, 1))),
              CostRow(StrCell(<<"5">>), IntCell(1)) >>) }

CostFiles ==
    CostGood \cup { File("cost_bad.csv", FALSE, 0, <<>>),
                    File("cost_narrow.csv", TRUE, 3, <<NarrowRow>>) }

NoCommit == [run |-> 0, n |-> 0, erp |-> PyNone, pub |-> PyNone, cost |-> PyNone]

Supplied(erp_file, prov_pub_file, prov_cost_file) ==
    [erp |-> erp_file # PyNone, pub |-> prov_pub_file # PyNone, cost |-> prov_cost_file # PyNone]

-----------------------------------------------------------------------------
(* Actions of the session specification: one script run each *)

\* The session before any analysis was requested
Fresh ==
    /\ session = SessionInit
    /\ writer = [f \in ResultFields |-> 0]
    /\ runs = 0
    /\ errors = <<>>
    /\ steps = <<>>
    /\ supplied = Supplied(PyNone, PyNone, PyNone)
    /\ outcome = "idle"
    /\ committed = NoCommit

sessionVars == <<session, writer, runs, errors, steps, supplied, outcome, committed>>

Init ==
    /\ Fresh
    /\ input = NoValue
    /\ output = NoValue

\* "Ejecutar Analisis" pressed while the ERP uploader is empty
ClickSinERP(prov_pub_file, prov_cost_file) ==
    /\ runs < MaxRuns
    /\ runs' = runs + 1
    /\ errors' = <<"El archivo base del ERP (A1) es obligatorio">>
    /\ steps' = <<>>
    /\ session' = Assign(session, MissingErp)
    /\ writer' = Written(writer, MissingErp, runs + 1)
    /\ supplied' = Supplied(PyNone, prov_pub_file, prov_cost_file)
    /\ outcome' = "MissingRequiredInput"
    /\ UNCHANGED <<committed, input, output>>

\* "Ejecutar Analisis" pressed with an ERP file
ClickAnalysis(erp_file, prov_pub_file, prov_cost_file) ==
    LET frame == TryBlock(erp_file, prov_pub_file, prov_cost_file)
        asg == IF frame.raised THEN ExceptHandler(frame) ELSE GuardarEstado(frame)
    IN  /\ runs < MaxRuns
        /\ runs' = runs + 1
        /\ errors' = IF frame.raised THEN frame.errors \o <<"Error critico">> ELSE <<>>
        /\ steps' = frame.steps
        /\ session' = Assign(session, asg)
        /\ writer' = Written(writer, asg, runs + 1)
        /\ supplied' = Supplied(erp_file, prov_pub_file, prov_cost_file)
        /\ outcome' = IF frame.raised THEN frame.why ELSE "ok"
        /\ committed' = IF frame.raised THEN committed
                        ELSE [run |-> runs + 1, n |-> committed.n + 1, erp |-> erp_file,
                              pub |-> prov_pub_file, cost |-> prov_cost_file]
        /\ UNCHANGED <<input, output>>

\* A script run caused by any other interaction: click_analysis is False
Rerun ==
    /\ outcome # "idle"
    /\ errors' = <<>>
    /\ steps' = <<>>
    /\ outcome' = "idle"
    /\ UNCHANGED <<session, writer, runs, supplied, committed, input, output>>

Next ==
    \/ \E pub \in PubFiles \cup {PyNone}, cost \in CostFiles \cup {PyNone} :
            ClickSinERP(pub, cost)
    \/ \E erp \in ErpFiles, pub \in PubFiles \cup {PyNone}, cost \in CostFiles \cup {PyNone} :
            ClickAnalysis(erp, pub, cost)
    \/ Rerun

Spec == Init /\ [][Next]_vars

\* The results are shown when the script run ends with analyzed set
Displayed == session.analyzed

Failed == {"MissingRequiredInput", "LoadError", "SchemaError"}

-----------------------------------------------------------------------------
(* Function specifications: the argument is drawn in the initial state and *)
(* one action applies the function to it.                                  *)

\* determine_status over difference values
StatusInputs ==
    {Fin(n, d) : n \in (-StatusRange)..StatusRange, d \in 0..MaxDecimals}
        \cup {NaN, Inf(1), Inf(-1)}

InitStatus == Fresh /\ input \in StatusInputs /\ output = NoValue

Classify ==
    /\ output = NoValue
    /\ output' = Result(determine_status("Diferencia_$$" :> input))
    /\ UNCHANGED <<sessionVars, input>>

SpecStatus == InitStatus /\ [][Classify]_vars

\* clean_currency over raw cells
Alphabet == {"$", ",", " ", "1", "5", ".", "-", "n", "a"}

Texts == UNION {[1..k -> Alphabet] : k \in 0..MaxLen}

SampleTexts ==
    { <<"$", "1", ",", "2", "0", "0", ".", "0", "0">>,
      <<"g", "a", "r", "b", "a", "g", "e">>,
      <<"i", "n", "f">>,
      <<"-", "i", "n", "f", "i", "n", "i", "t", "y">>,
      <<" ", "$", " ", "4", "2", " ">>,
      <<"1", " ", "5">>,
      <<"1", ".", "0", "0", "5">> }

CleanInputs ==
    {StrCell(s) : s \in Texts \cup SampleTexts}
        \cup {IntCell(42), NumCell(Fin(15, 1)), NumCell(Inf(1)), Missing}

InitClean == Fresh /\ input \in CleanInputs /\ output = NoValue

CleanCurrency ==
    /\ output = NoValue
    /\ output' = Result(clean_currency(input))
    /\ UNCHANGED <<sessionVars, input>>

SpecClean == InitClean /\ [][CleanCurrency]_vars

\* The two analyses over small tables
Tables(rowset) == UNION {[1..k -> rowset] : k \in 0..MaxRows}

MatchErpRows ==
    {ErpRow(code, precio, precio) :
        code \in {StrCell(<<"7">>), StrCell(<<"8", " ">>), Missing},
        precio \in {IntCell(1), IntCell(2)}}

MatchSupCodes == {StrCell(<<" ", "7">>), IntCell(8), StrCell(<<"n", "a", "n">>), StrCell(<<"6">>)}

\* A supplier row holding code and price at the positions of both supplier layouts
SupRow(code, precio) == PubRow(code, StrCell(<<"d">>), precio) @@ CostRow(code, precio)

MatchSupRows == {SupRow(code, IntCell(3)) : code \in MatchSupCodes}

InitMatch ==
    /\ Fresh
    /\ input \in [erp : {[kind |-> "df", ncols |-> 21, rows |-> t] : t \in Tables(MatchErpRows)},
                  sup : {[kind |-> "df", ncols |-> 10, rows |-> t] : t \in Tables(MatchSupRows)},
                  lista : {"B1", "B2"}]
    /\ output = NoValue

\* The analysis of the chosen supplier list against the ERP frame
Cruce(in) ==
    IF in.lista = "B1" THEN AnalisisPublico(in.sup, ErpSubset(in.erp))
    ELSE AnalisisCosto(in.sup, ErpSubset(in.erp))

Cruzar ==
    /\ output = NoValue
    /\ output' = Result(Cruce(input))
    /\ UNCHANGED <<sessionVars, input>>

SpecMatch == InitMatch /\ [][Cruzar]_vars

\* The two analyses over one supplier row and one ERP row of the same code
PriceCells ==
    {NumCell(Fin(c, 2)) : c \in (-MaxCents)..MaxCents}
        \cup { Missing, NumCell(Inf(1)), NumCell(Fin(1005, 3)), NumCell(Fin(-5, 3)), IntCell(10),
               StrCell(<<"1", "0", ".", "5", "0">>),
               StrCell(<<"$", "1", ",", "2", "0", "0", ".", "0", "0">>),
               StrCell(<<"g", "a", "r", "b", "a", "g", "e">>) }

InitPrice ==
    /\ Fresh
    /\ \E pe \in PriceCells, ps \in PriceCells, l \in {"B1", "B2"} :
          input = [erp |-> [kind |-> "df", ncols |-> 21,
                            rows |-> <<ErpRow(StrCell(<<"1", "0", "0">>), pe, pe)>>],
                   sup |-> [kind |-> "df", ncols |-> 10,
                            rows |-> <<SupRow(StrCell(<<"1", "0", "0">>), ps)>>],
                   lista |-> l]
    /\ output = NoValue

Comparar ==
    /\ output = NoValue
    /\ output' = Result(Cruce(input))
    /\ UNCHANGED <<sessionVars, input>>

SpecPrice == InitPrice /\ [][Comparar]_vars

-----------------------------------------------------------------------------
(* Properties of the session specification *)

\* The result fields a run over the given files stores when it does not raise
ResultsOf(c) == GuardarEstado(TryBlock(c.erp, c.pub, c.cost))

\* C1: all-or-nothing commit.  Every result field of the session was last
\* assigned by the last run that reached GUARDAR ESTADO (by no run at all before
\* the first one), so a run that failed at any step assigned none of them; and
\* whenever analyzed is set, that run is the latest one and the four fields hold
\* exactly what it computed from its own files.
C1_AllOrNothing ==
    /\ \A f \in ResultFields : writer[f] = committed.run
    /\ committed.run = 0 => \A f \in ResultFields : session[f] = SessionInit[f]
    /\ session.analyzed =>
          /\ committed.run = runs
          /\ committed.run > 0
          /\ \A f \in ResultFields : session[f] = ResultsOf(committed)[f]

\* C1 witness: a run that failed in the cost analysis, after its public analysis
\* had produced a report, while the session holds the results of an earlier run.
C1_Witness ==
    /\ outcome \in {"LoadError", "SchemaError"}
    /\ Len(steps) > 0 /\ steps[Len(steps)] = "load:cost"
    /\ \E i \in 1..Len(steps) : steps[i] = "analyze:pub"
    /\ committed.run > 0
    /\ session.res_cost # PyNone

\* C2: a run requested without an ERP file reports the missing input and is
\* blocked: no file is loaded and no step of the analysis is executed, whatever
\* the supplier uploaders hold, and no result is displayed afterwards.
C2_MissingErpBlocks ==
    (outcome # "idle" /\ ~supplied.erp) =>
        /\ outcome = "MissingRequiredInput"
        /\ errors = <<"El archivo base del ERP (A1) es obligatorio">>
        /\ steps = <<>>
        /\ ~Displayed

\* C2 witness: the ERP file is missing while both supplier files are present and
\* an earlier run had stored results.
C2_Witness ==
    /\ outcome = "MissingRequiredInput"
    /\ supplied.pub /\ supplied.cost
    /\ committed.run > 0
    /\ session.res_public # PyNone

\* C3 as claimed: a run aborted by a load failure leaves every session field,
\* analyzed included, as it was before the run.
C3_PriorStateUntouched ==
    [][(runs' = runs + 1 /\ outcome' = "LoadError") => session' = session]_vars

\* C3 as amended: a run aborted by a load failure leaves res_public, res_cost,
\* audit_data and input_counts as they were before the run, and sets analyzed to
\* False.
C3_ResultsUntouchedAnalyzedCleared ==
    [][(runs' = runs + 1 /\ outcome' = "LoadError") =>
            /\ \A f \in ResultFields : session'[f] = session[f] /\ writer'[f] = writer[f]
            /\ session'.analyzed = FALSE]_vars

\* C3 witness: a load failure in the run right after a successful one, whose
\* results are still held but no longer marked as analyzed.
C3_Witness ==
    /\ outcome = "LoadError"
    /\ committed.run > 0 /\ committed.run = runs - 1
    /\ session.res_public # PyNone
    /\ ~session.analyzed

\* C4: every failed run shows exactly one error report.
C4_SingleError == outcome \in Failed => Len(errors) = 1

\* C10: a successful run fully replaces the previous results.  Whenever analyzed
\* is set, each report is present iff its file was supplied to the last
\* successful run, and the audit data holds the two keys of a list iff the
\* report of that list is present.
C10_ResultsReplaced ==
    session.analyzed =>
        /\ session.res_public # PyNone <=> committed.pub # PyNone
        /\ session.res_cost # PyNone <=> committed.cost # PyNone
        /\ \A key \in {"B1_not_A1", "A1_not_B1"} :
              key \in DOMAIN session.audit_data <=> session.res_public # PyNone
        /\ \A key \in {"B2_not_A1", "A1_not_B2"} :
              key \in DOMAIN session.audit_data <=> session.res_cost # PyNone
        /\ DOMAIN session.audit_data \subseteq {"B1_not_A1", "A1_not_B1", "B2_not_A1", "A1_not_B2"}

\* C10 witness: a second successful run without a public file, with a cost file.
C10_Witness ==
    /\ session.analyzed
    /\ committed.n >= 2
    /\ session.res_public = PyNone
    /\ session.res_cost # PyNone

-----------------------------------------------------------------------------
(* Properties of determine_status *)

\* |x| < 0.005 for a finite x, stated on the scaled integers
WithinTolerance(x) ==
    /\ x.k = "fin"
    /\ -(TolNum * Pow10(x.d)) < TolDen * x.n
    /\ TolDen * x.n < TolNum * Pow10(x.d)

\* C5: the status of a difference x is 'Igual' iff |x| < 0.005; otherwise it is
\* 'Mayor que ERP' when x > 0 and 'Menor que ERP' when x < 0.  Every x gets
\* exactly one of the three, and at the boundary 0.005 is 'Mayor que ERP',
\* -0.005 is 'Menor que ERP' and 0.0049 is 'Igual'.
C5_StatusTernary ==
    output.k = "result" =>
        /\ output.v \in {"Igual", "Mayor que ERP", "Menor que ERP"}
        /\ output.v = "Igual" <=> WithinTolerance(input)
        /\ (~WithinTolerance(input) /\ GtZero(input)) => output.v = "Mayor que ERP"
        /\ (~WithinTolerance(input) /\ LtZero(input)) => output.v = "Menor que ERP"
        /\ input = Fin(5, 3) => output.v = "Mayor que ERP"
        /\ input = Fin(-5, 3) => output.v = "Menor que ERP"
        /\ input = Fin(49, 4) => output.v = "Igual"

\* C5 witness: the boundary value 0.005 has been classified.
C5_Witness == output.k = "result" /\ input = Fin(5, 3) /\ output.v = "Mayor que ERP"

-----------------------------------------------------------------------------
(* Properties of clean_currency *)

\* C9: clean_currency always returns a finite float: '$1,200.00' gives 1200.0,
\* text that is no number gives 0.0, a number passes through unchanged, and the
\* texts 'nan' and 'inf' and an empty cell give a finite float as well.
C9_AlwaysFinite ==
    output.k = "result" =>
        /\ IsFinite(output.v)
        /\ input = StrCell(<<"$", "1", ",", "2", "0", "0", ".", "0", "0">>) => output.v = Fin(1200, 0)
        /\ input = StrCell(<<"g", "a", "r", "b", "a", "g", "e">>) => output.v = Zero
        /\ input = IntCell(42) => output.v = Fin(42, 0)

\* What clean_currency returns on sample cells
CleanExamples ==
    output.k = "result" =>
        /\ input = StrCell(<<"$", "1", ",", "2", "0", "0", ".", "0", "0">>) => output.v = Fin(1200, 0)
        /\ input = StrCell(<<"g", "a", "r", "b", "a", "g", "e">>) => output.v = Zero
        /\ input = IntCell(42) => output.v = Fin(42, 0)
        /\ input = StrCell(<<" ", "$", " ", "4", "2", " ">>) => output.v = Fin(42, 0)
        /\ input = StrCell(<<"1", " ", "5">>) => output.v = Zero
        /\ input = StrCell(<<"n", "a", "n">>) => output.v = NaN
        /\ input = StrCell(<<"-", "i", "n", "f", "i", "n", "i", "t", "y">>) => output.v = Inf(-1)
        /\ input = Missing => output.v = NaN

-----------------------------------------------------------------------------
(* Properties of the matching and of the audit sets *)

\* Number of positions of the sequence q whose element satisfies Test
Count(q, Test(_)) == Cardinality({i \in 1..Len(q) : Test(q[i])})

\* For the chosen list: the code column of a raw supplier row, and the columns
\* of a matched row that come from the supplier frame
SupCodeOf(in, row) == normalize_identifier(row[IF in.lista = "B1" THEN PubCodeCol ELSE CostCodeCol])
ErpCodeOf(row) == normalize_identifier(row[ErpCodeCol])

SupCodes(in) == {SupCodeOf(in, in.sup.rows[i]) : i \in 1..Len(in.sup.rows)}
ErpCodes(in) == {ErpCodeOf(in.erp.rows[i]) : i \in 1..Len(in.erp.rows)}

MatchedCodes(out) == {out.res.rows[i]["Codigo_Prov"] : i \in 1..Len(out.res.rows)}

SupNotErp(in, out) == out.audit[IF in.lista = "B1" THEN "B1_not_A1" ELSE "B2_not_A1"]
ErpNotSup(in, out) == out.audit[IF in.lista = "B1" THEN "A1_not_B1" ELSE "A1_not_B2"]

\* C6: the matched report holds exactly one row per pair of a supplier row and an
\* ERP row with equal trimmed codes and no other row: a code occurs in it iff it
\* occurs in both sources, and a code held by m supplier rows and n ERP rows
\* yields m * n matched rows.
C6_InnerJoinPairs ==
    output.k = "result" =>
        LET in == input
            res == output.v.res.rows
        IN  /\ \A k \in 1..Len(res) : res[k]["Codigo_Prov"] = res[k]["Codigo_ERP"]
            /\ MatchedCodes(output.v) = SupCodes(in) \cap ErpCodes(in)
            /\ \A code \in SupCodes(in) \cup ErpCodes(in) :
                  LET IsSup(r) == SupCodeOf(in, r) = code
                      IsErp(r) == ErpCodeOf(r) = code
                      IsRes(r) == r["Codigo_Prov"] = code
                  IN  Count(res, IsRes) = Count(in.sup.rows, IsSup) * Count(in.erp.rows, IsErp)
            /\ \A i \in 1..Len(in.sup.rows), j \in 1..Len(in.erp.rows) :
                  SupCodeOf(in, in.sup.rows[i]) = ErpCodeOf(in.erp.rows[j]) =>
                      \E k \in 1..Len(res) :
                          LET precio == IF in.lista = "B1" THEN "Precio_Publico_ERP"
                                        ELSE "Precio_Costo_ERP"
                              col == IF in.lista = "B1" THEN ErpPublicCol ELSE ErpCostCol
                          IN  /\ res[k]["Codigo_Prov"] = SupCodeOf(in, in.sup.rows[i])
                              /\ res[k][precio] = Round2(clean_currency(in.erp.rows[j][col]))

\* C6 witness: a code held by two supplier rows and two ERP rows gave four
\* matched rows.
C6_Witness ==
    /\ output.k = "result"
    /\ \E code \in SupCodes(input) :
          LET IsSup(r) == SupCodeOf(input, r) = code
              IsErp(r) == ErpCodeOf(r) = code
              IsRes(r) == r["Codigo_Prov"] = code
          IN  /\ Count(input.sup.rows, IsSup) = 2
              /\ Count(input.erp.rows, IsErp) = 2
              /\ Count(output.v.res.rows, IsRes) = 4

\* C7: audit completeness.  In each direction the codes of a source are split
\* between its audit set and the matched report, no code is in an audit set and
\* in the matched report, the two audit sets share no code, and an audit set
\* keeps every row of its source whose code the other source lacks.
C7_AuditComplete ==
    output.k = "result" =>
        LET in == input
            out == output.v
            a_sup == CodeSet(SupNotErp(in, out), "Codigo_Prov")
            a_erp == CodeSet(ErpNotSup(in, out), "Codigo_ERP")
            both == MatchedCodes(out)
            SupAlone(r) == SupCodeOf(in, r) \notin ErpCodes(in)
            ErpAlone(r) == ErpCodeOf(r) \notin SupCodes(in)
        IN  /\ a_sup \cup both = SupCodes(in)
            /\ a_erp \cup both = ErpCodes(in)
            /\ a_sup \cap both = {}
            /\ a_erp \cap both = {}
            /\ a_sup \cap a_erp = {}
            /\ Len(SupNotErp(in, out).rows) = Count(in.sup.rows, SupAlone)
            /\ Len(ErpNotSup(in, out).rows) = Count(in.erp.rows, ErpAlone)
            /\ \A code \in ErpCodes(in) \ SupCodes(in) : code \in a_erp /\ code \notin both

\* C7 witness: both audit sets and the matched report are non-empty.
C7_Witness ==
    /\ output.k = "result"
    /\ Len(SupNotErp(input, output.v).rows) > 0
    /\ Len(ErpNotSup(input, output.v).rows) > 0
    /\ Len(output.v.res.rows) > 0

-----------------------------------------------------------------------------
(* Properties of the differences *)

\* A finite value with at most two decimals, in cents
Cents(v) == v.n * Pow10(2 - v.d)

\* C8: in the public and in the cost report, a row whose ERP price is 0.0 has
\* percent difference 0.0 whatever the supplier price; a row whose ERP price is
\* not zero has the percent difference round(dif / erp * 100, 2), where dif is
\* round(supplier - erp, 2).
C8_PercentSentinel ==
    output.k = "result" =>
        \A k \in 1..Len(output.v.res.rows) :
            LET r == output.v.res.rows[k]
                b1 == input.lista = "B1"
                erp == r[IF b1 THEN "Precio_Publico_ERP" ELSE "Precio_Costo_ERP"]
                prov == r[IF b1 THEN "Precio_Publico_Prov" ELSE "Precio_Costo_Prov"]
                dif == r["Diferencia_$$"]
                pct == r["Diferencia_%"]
            IN  /\ erp = Zero => pct = Zero
                /\ (IsFinite(erp) /\ IsFinite(prov)) =>
                      /\ IsFinite(dif) /\ dif.d <= 2
                      /\ Cents(dif) = Cents(prov) - Cents(erp)
                /\ (IsFinite(erp) /\ IsFinite(prov) /\ erp # Zero) =>
                      /\ IsFinite(pct) /\ pct.d <= 2
                      /\ 2 * Abs(Cents(pct) * Cents(erp) - 10000 * Cents(dif)) <= Abs(Cents(erp))
                /\ (erp # Zero /\ (dif = NaN \/ erp = NaN)) => pct = NaN

\* C8 witness: an ERP price of 0.0 against a supplier price that is not zero
\* gave the percent difference 0.0.
C8_Witness ==
    /\ output.k = "result"
    /\ \E k \in 1..Len(output.v.res.rows) :
          LET r == output.v.res.rows[k]
          IN  /\ r["Diferencia_%"] = Zero
              /\ r["Diferencia_$$"] # Zero
              /\ r["Estado"] = "Mayor que ERP"
              /\ \/ (input.lista = "B1" /\ r["Precio_Publico_ERP"] = Zero)
                 \/ (input.lista = "B2" /\ r["Precio_Costo_ERP"] = Zero)

=============================================================================
